---- MODULE Spec2Model ----
(***************************************************************************)
(* A model of the book scraping job: the five-stage run of index.js        *)
(* (executeBookScrapingJob, downloadAssets and the top-level statements),  *)
(* the fan-out functions of scrapingUtils.js, the field extractors of      *)
(* dataExtractors.js, the fetchers of crawler.js and the persistence       *)
(* helpers of commonUtils.js.                                              *)
(*                                                                         *)
(* Every network or file-system completion is one action; the action runs  *)
(* the whole continuation of the code up to the next point where the       *)
(* program waits for I/O.  What the network or the disk answers is an      *)
(* input of the action, drawn from a small set.                            *)
(*                                                                         *)
(* Strings the code parses with a regular expression are sequences of      *)
(* one-character strings.  URLs are records [kind, n, src]: the base URL,  *)
(* catalogue/page-n.html, the item page catalogue/<href n>, an asset       *)
(* resolved against item page n from the src text, or a file path.         *)
(***************************************************************************)
EXTENDS Naturals, Sequences, FiniteSets, Bags

\* ------------------------------------------------------------------ bounds
\* the largest page count the home page announces
MaxPages == 2
\* the largest number of item anchors on all catalog pages together
MaxItems == 2
\* the longest text of an element or attribute of a page read on its own
MaxText == 3
\* the largest number of header cells, and of data cells, of a page read on
\* its own
MaxCells == 3
\* the longest identifier of an asset descriptor handled on its own
MaxIdentifier == 3
\* the most item anchors of a catalog page the reduce is applied to on its own
MaxAnchors == 3

\* ------------------------------------------------------------ characters
Digits == {"0", "1", "2", "3", "4", "5", "6", "7", "8", "9"}

LowerCase ==
  {"a", "b", "c", "d", "e", "f", "g", "h", "i", "j", "k", "l", "m",
   "n", "o", "p", "q", "r", "s", "t", "u", "v", "w", "x", "y", "z"}

UpperCase ==
  {"A", "B", "C", "D", "E", "F", "G", "H", "I", "J", "K", "L", "M",
   "N", "O", "P", "Q", "R", "S", "T", "U", "V", "W", "X", "Y", "Z"}

WhiteSpace == {" "}

DigitChars == <<"0", "1", "2", "3", "4", "5", "6", "7", "8", "9">>

DigitValue(c) == (CHOOSE i \in 1..10 : DigitChars[i] = c) - 1

\* String.prototype.trim
RECURSIVE TrimLeft(_)
TrimLeft(s) ==
  IF s # <<>> /\ Head(s) \in WhiteSpace THEN TrimLeft(Tail(s)) ELSE s

RECURSIVE TrimRight(_)
TrimRight(s) ==
  IF s # <<>> /\ s[Len(s)] \in WhiteSpace
    THEN TrimRight(SubSeq(s, 1, Len(s) - 1))
    ELSE s

Trim(s) == TrimRight(TrimLeft(s))

\* The longest suffix of s made of characters of class: what /[class]+$/
\* matches (the leftmost match of an end-anchored run); <<>> is "no match".
RECURSIVE TrailingRun(_, _)
TrailingRun(s, class) ==
  IF s # <<>> /\ s[Len(s)] \in class
    THEN Append(TrailingRun(SubSeq(s, 1, Len(s) - 1), class), s[Len(s)])
    ELSE <<>>

\* Number("...") of a run of decimal digits
RECURSIVE ParseNumber(_)
ParseNumber(ds) ==
  IF ds = <<>> THEN 0
  ELSE ParseNumber(SubSeq(ds, 1, Len(ds) - 1)) * 10 + DigitValue(ds[Len(ds)])

SeqsUpTo(S, n) == UNION {[1..k -> S] : k \in 0..n}

\* ------------------------------------------------------------------- URLs
BASE_URL == [kind |-> "base", n |-> 0, src |-> <<>>]

\* new URL(`catalogue/page-${pageNum}.html`, baseUrl).href
CatalogPageUrl(pageNum) == [kind |-> "page", n |-> pageNum, src |-> <<>>]

\* new URL(`catalogue/${elementHref}`, baseUrl).href
BookPageUrl(href) == [kind |-> "item", n |-> href, src |-> <<>>]

\* new URL(src, bookPageUrl).href; the empty reference resolves to the page
AssetUrl(src, bookPageUrl) ==
  IF src = <<>> THEN bookPageUrl
  ELSE [kind |-> "asset", n |-> bookPageUrl.n, src |-> src]

\* the text of an absolute URL ends with the text it was resolved from
UrlTail(url) ==
  IF url.kind = "asset" THEN url.src ELSE <<"h", "t", "m", "l">>

OutputFilePath == [kind |-> "json", n |-> 0, src |-> <<>>]

\* the segments of a path text: the texts between its slashes
RECURSIVE SplitPath(_)
SplitPath(text) ==
  IF text = <<>> THEN <<<<>>>>
  ELSE LET rest == SplitPath(Tail(text))
       IN  IF Head(text) = "/" THEN <<<<>>>> \o rest
           ELSE <<<<Head(text)>> \o Head(rest)>> \o Tail(rest)

\* path normalization: empty and "." segments are dropped, ".." drops the
\* segment before it (none at the root)
RECURSIVE NormalizeSegments(_, _)
NormalizeSegments(done, todo) ==
  IF todo = <<>> THEN done
  ELSE IF Head(todo) = <<>> \/ Head(todo) = <<".">>
    THEN NormalizeSegments(done, Tail(todo))
  ELSE IF Head(todo) = <<".", ".">>
    THEN NormalizeSegments(IF done = <<>> THEN <<>>
                           ELSE SubSeq(done, 1, Len(done) - 1), Tail(todo))
  ELSE NormalizeSegments(Append(done, Head(todo)), Tail(todo))

\* the text of the absolute path with these segments
RECURSIVE JoinPath(_)
JoinPath(segments) ==
  IF segments = <<>> THEN <<>>
  ELSE <<"/">> \o Head(segments) \o JoinPath(Tail(segments))

\* `${DATA_DIR}/assets` below the working directory of the process
DataDirectory ==
  <<"/", "c", "w", "d", "/", "d", "a", "t", "a", "/", "a", "s", "s", "e", "t", "s">>

\* path.resolve(dataDirectory, imageName): an absolute imageName replaces
\* the directory, a relative one is appended to it; the result is
\* normalized
AssetFilePath(imageName) ==
  [kind |-> "file", n |-> 0,
   src |-> JoinPath(NormalizeSegments(<<>>,
             IF imageName # <<>> /\ Head(imageName) = "/"
               THEN SplitPath(imageName)
               ELSE SplitPath(DataDirectory) \o SplitPath(imageName)))]

\* ------------------------------------------------------------ the network
\* What one axios.get exchange (after its retries) comes to.
Exchanges ==
  {[kind |-> "noResponse", status |-> 0]} \cup
  {[kind |-> "response", status |-> s] : s \in {200, 204, 404}}

\* axios rejects by default for a status outside 2xx
AxiosRejects(x) ==
  x.kind = "noResponse" \/ x.status < 200 \/ x.status >= 300

\* getHtmlResponse and getAssetStream: the throw of UnsuccessfulResponseError
\* is inside the try block, so its own catch replaces it by NoResponseError
CrawlerGet(x) ==
  IF ~AxiosRejects(x) /\ x.status = 200
    THEN [ok |-> TRUE, err |-> "none"]
    ELSE [ok |-> FALSE, err |-> "NoResponseError"]

getHtmlResponse(x) == CrawlerGet(x)

getAssetStream(x) == CrawlerGet(x)

\* -------------------------------------------------------------------- log
\* One entry of the warn/error log: logger.error(error.message) and the
\* aggregated logger.warn of a catalog page.  info entries are not recorded.
ErrorEntry(err, about) ==
  [level |-> "error", err |-> err, about |-> about, count |-> 0]

WarnEntry(count, about) ==
  [level |-> "warn", err |-> "hrefNotFound", about |-> about, count |-> count]

NoAbout == [kind |-> "none", n |-> 0, src |-> <<>>]

\* -------------------------------------------------- parsed documents ($)
\* Home page: the text of the pagination element li.current ("" if absent).
PageOf(n) ==
  <<" ", "P", "a", "g", "e", " ", "1", " ", "o", "f", " ", DigitChars[n + 1], " ">>

HomeDocs ==
  {[pagination |-> <<>>], [pagination |-> <<"P", "a", "g", "e">>]} \cup
  {[pagination |-> PageOf(n)] : n \in 0..MaxPages}

\* Catalog page: the item anchors in document order, each the number of its
\* href, or 0 for an anchor without (or with an empty) href attribute.
Hrefs == {1, 2}

CatalogDocs == {[anchors |-> a] : a \in SeqsUpTo({0} \cup Hrefs, MaxItems)}

\* Item page: what each selector of bookPageSelectors finds.  The table of
\* the good page has a row before its "UPC" row and a second "UPC" row.
GoodDoc ==
  [breadcrumbs |-> <<<<"H">>, <<" ", "F">>, <<"T">>>>,
   titles |-> <<<<"T", " ">>>>,
   ratingClass |-> <<<<"s", "r", " ", "O", "n", "e">>>>,
   description |-> <<<<"d">>>>,
   keys |-> <<<<"T", "a", "x">>, <<"U", "P", "C">>, <<"U", "P", "C">>>>,
   values |-> <<<<"0">>, <<"u", "1">>, <<"u", "2">>>>,
   imgSrc |-> <<<<"m", "/", "a", ".", "j", "p", "g">>>>]

NoTitleDoc == [GoodDoc EXCEPT !.titles = <<>>]

NoRatingDoc == [GoodDoc EXCEPT !.ratingClass = <<>>]

NoImageDoc == [GoodDoc EXCEPT !.imgSrc = <<>>]

NoUpcDoc == [GoodDoc EXCEPT !.keys = <<<<"T", "a", "x">>>>, !.values = <<<<"0">>>>]

BadExtDoc == [GoodDoc EXCEPT !.imgSrc = <<<<"m", "/">>>>]

ItemDocs == {GoodDoc, NoTitleDoc, NoRatingDoc, NoImageDoc, NoUpcDoc, BadExtDoc}

\* -------------------------------------------------------- dataExtractors
Returned(v) == [ok |-> TRUE, value |-> v, err |-> "none"]

Thrown(e) == [ok |-> FALSE, value |-> <<>>, err |-> e]

\* $(breadcrumbs).eq(-2) is always an object, so the guard never throws;
\* the text of an empty selection is ""
extractBookCategory(doc) ==
  IF Len(doc.breadcrumbs) >= 2
    THEN Returned(Trim(doc.breadcrumbs[Len(doc.breadcrumbs) - 1]))
    ELSE Returned(<<>>)

extractBookTitle(doc) ==
  IF Len(doc.titles) = 0
    THEN Thrown("BookTitleNotFoundError")
    ELSE Returned(Trim(doc.titles[1]))

\* /[A-Z][a-z]+$/ : the trailing run of lower-case letters, if it is not
\* empty and an upper-case letter stands right before it
CapitalizedTail(s) ==
  LET run == TrailingRun(s, LowerCase)
      at == Len(s) - Len(run)
  IN  IF run # <<>> /\ at >= 1 /\ s[at] \in UpperCase
        THEN <<s[at]>> \o run
        ELSE <<>>

\* the catch block names bookPageUrl, which is not in scope in this
\* function: building the BookRatingNotFoundError throws a ReferenceError
extractBookRating(doc) ==
  IF doc.ratingClass = <<>> \/ CapitalizedTail(Trim(doc.ratingClass[1])) = <<>>
    THEN Thrown("ReferenceError")
    ELSE Returned(CapitalizedTail(Trim(doc.ratingClass[1])))

\* .text() of an empty selection is "", nothing in the try block throws
extractBookDescription(doc) ==
  IF doc.description = <<>> THEN Returned(<<>>)
  ELSE Returned(Trim(doc.description[1]))

\* (mutant) a table whose header and data cells do not pair up is refused
extractBookProductInfoStrict(doc) ==
  IF Len(doc.keys) # Len(doc.values)
    THEN Thrown("BookProductInfoNotFoundError")
    ELSE Returned([index \in 1..Len(doc.keys) |->
                     [key |-> Trim(doc.keys[index]),
                      value |-> Trim(doc.values[index])]])

extractBookProductInfo(doc) ==
  LET items == IF Len(doc.keys) < Len(doc.values)
                 THEN Len(doc.keys) ELSE Len(doc.values)
  IN  Returned([index \in 1..items |->
                  [key |-> Trim(doc.keys[index]),
                   value |-> Trim(doc.values[index])]])

extractBookImageUrl(doc, bookPageUrl) ==
  IF doc.imgSrc = <<>>
    THEN [ok |-> FALSE, value |-> NoAbout, err |-> "BookImageURLFoundError"]
    ELSE [ok |-> TRUE, value |-> AssetUrl(Trim(doc.imgSrc[1]), bookPageUrl),
          err |-> "none"]

\* (mutant) every extractor call guarded on its own: a field whose extractor
\* throws is left empty and the record is returned all the same
parseBookInfoPartial(doc, bookPageUrl) ==
  LET category == extractBookCategory(doc)
      title == extractBookTitle(doc)
      rating == extractBookRating(doc)
      description == extractBookDescription(doc)
      productInfo == extractBookProductInfo(doc)
      imageUrl == extractBookImageUrl(doc, bookPageUrl)
  IN  Returned(<<[url |-> bookPageUrl,
                  category |-> category.value,
                  title |-> title.value,
                  rating |-> rating.value,
                  description |-> description.value,
                  productInfo |-> productInfo.value,
                  imageUrl |-> imageUrl.value]>>)

\* The object literal evaluates its properties in order; the first extractor
\* that throws ends it.  value is <<record>> or, when thrown, <<>>.
parseBookInfo(doc, bookPageUrl) ==
  LET category == extractBookCategory(doc)
      title == extractBookTitle(doc)
      rating == extractBookRating(doc)
      description == extractBookDescription(doc)
      productInfo == extractBookProductInfo(doc)
      imageUrl == extractBookImageUrl(doc, bookPageUrl)
  IN  IF ~category.ok THEN Thrown(category.err)
      ELSE IF ~title.ok THEN Thrown(title.err)
      ELSE IF ~rating.ok THEN Thrown(rating.err)
      ELSE IF ~description.ok THEN Thrown(description.err)
      ELSE IF ~productInfo.ok THEN Thrown(productInfo.err)
      ELSE IF ~imageUrl.ok THEN Thrown(imageUrl.err)
      ELSE Returned(<<[url |-> bookPageUrl,
                       category |-> category.value,
                       title |-> title.value,
                       rating |-> rating.value,
                       description |-> description.value,
                       productInfo |-> productInfo.value,
                       imageUrl |-> imageUrl.value]>>)

\* parseBookInfo of every item document at every item URL, computed once
ParsedPages ==
  [doc \in ItemDocs, href \in Hrefs |-> parseBookInfo(doc, BookPageUrl(href))]

\* (mutant) the text is matched as it is, without trim()
PageCountMatchUntrimmed(doc) == TrailingRun(doc.pagination, Digits)

\* ------------------------------------------------- scrapingUtils, pure
\* $(paginationSelector).text().trim().match(/\d+$/): <<>> is the null match,
\* on which .at(0) throws and CatalogPageCountNotFoundError replaces it
PageCountMatch(doc) == TrailingRun(Trim(doc.pagination), Digits)

\* (mutant) the loop starts at page 0: pageNum = 0 .. numOfCatalogPages - 1
CatalogPageUrlListZeroBased(numOfCatalogPages) ==
  [pageNum \in 1..numOfCatalogPages |-> CatalogPageUrl(pageNum - 1)]

\* the for loop pageNum = 1 .. numOfCatalogPages
CatalogPageUrlList(numOfCatalogPages) ==
  [pageNum \in 1..numOfCatalogPages |-> CatalogPageUrl(pageNum)]

\* $(element).attr('href') is undefined for an anchor without the attribute
\* (0), the empty string for an empty attribute (EmptyHref), or the text of
\* the link (its number)
EmptyHref == 3

\* if (elementHref): undefined and the empty string are falsy
Truthy(elementHref) == elementHref \notin {0, EmptyHref}

\* (mutant) result.urls.unshift in place of result.urls.push
RECURSIVE ReduceAnchorsUnshift(_)
ReduceAnchorsUnshift(anchors) ==
  IF anchors = <<>> THEN [urls |-> <<>>, errors |-> 0]
  ELSE LET result == ReduceAnchorsUnshift(SubSeq(anchors, 1, Len(anchors) - 1))
           elementHref == anchors[Len(anchors)]
       IN  IF Truthy(elementHref)
             THEN [result EXCEPT !.urls = <<BookPageUrl(elementHref)>> \o @]
             ELSE [result EXCEPT !.errors = @ + 1]

\* the reduce over the anchors of one catalog page
RECURSIVE ReduceAnchors(_)
ReduceAnchors(anchors) ==
  IF anchors = <<>> THEN [urls |-> <<>>, errors |-> 0]
  ELSE LET result == ReduceAnchors(SubSeq(anchors, 1, Len(anchors) - 1))
           elementHref == anchors[Len(anchors)]
       IN  IF Truthy(elementHref)
             THEN [result EXCEPT !.urls = Append(@, BookPageUrl(elementHref))]
             ELSE [result EXCEPT !.errors = @ + 1]

\* constructCatalogPageUrls for the home page exchange x delivering doc:
\* null (after logging) when the fetch fails, CatalogPageCountNotFoundError
\* thrown when the match is null, else the list of catalog page URLs
constructCatalogPageUrls(x, doc) ==
  IF ~getHtmlResponse(x).ok
    THEN [tag |-> "null", v |-> <<>>, err |-> "none"]
    ELSE IF PageCountMatch(doc) = <<>>
      THEN [tag |-> "thrown", v |-> <<>>,
            err |-> "CatalogPageCountNotFoundError"]
      ELSE [tag |-> "list",
            v |-> CatalogPageUrlList(ParseNumber(PageCountMatch(doc))),
            err |-> "none"]

\* (mutant) the reducer prepends: [...currentValue, ...accumulator]
ConcatStepSwapped(accumulator, currentValue) == currentValue \o accumulator

\* one step of the reduce of constructAllBookPageUrls
ConcatStep(accumulator, currentValue) == accumulator \o currentValue

\* .map((result) => result.value).reduce(concat, []) over the settled results,
\* which Promise.allSettled hands over in the order of its input
RECURSIVE ConcatValues(_)
ConcatValues(results) ==
  IF results = <<>> THEN <<>>
  ELSE ConcatStep(ConcatValues(SubSeq(results, 1, Len(results) - 1)),
                  results[Len(results)].value)

\* (mutant) the reducer pushes a value only if the list does not hold an
\* equal one yet
RECURSIVE CollectValuesDistinct(_)
CollectValuesDistinct(results) ==
  IF results = <<>> THEN <<>>
  ELSE LET bookInfoList ==
             CollectValuesDistinct(SubSeq(results, 1, Len(results) - 1))
           result == results[Len(results)]
       IN  IF /\ result.status = "fulfilled"
              /\ result.value # <<>>
              /\ \A k \in 1..Len(bookInfoList) : bookInfoList[k] # result.value[1]
             THEN Append(bookInfoList, result.value[1])
             ELSE bookInfoList

\* (mutant) bookInfoList.unshift in place of bookInfoList.push
RECURSIVE CollectValuesUnshift(_)
CollectValuesUnshift(results) ==
  IF results = <<>> THEN <<>>
  ELSE LET bookInfoList ==
             CollectValuesUnshift(SubSeq(results, 1, Len(results) - 1))
           result == results[Len(results)]
       IN  IF result.status = "fulfilled" /\ result.value # <<>>
             THEN <<result.value[1]>> \o bookInfoList
             ELSE bookInfoList

\* the reduce of extractAllBookInfo: result.value is pushed when it is truthy;
\* it is null after a failed fetch and undefined on a rejected result
RECURSIVE CollectValues(_)
CollectValues(results) ==
  IF results = <<>> THEN <<>>
  ELSE LET bookInfoList == CollectValues(SubSeq(results, 1, Len(results) - 1))
           result == results[Len(results)]
       IN  IF result.status = "fulfilled" /\ result.value # <<>>
             THEN Append(bookInfoList, result.value[1])
             ELSE bookInfoList

\* (mutant) Promise.any / Promise.race in place of Promise.allSettled: the
\* stage is over as soon as one promise has settled
SomeSettled(ops) == \E i \in 1..Len(ops) : ops[i].status # "pending"

\* Promise.allSettled resolves once no promise of the stage is pending
AllSettled(ops) == \A i \in 1..Len(ops) : ops[i].status # "pending"

Pending(ops) == {i \in 1..Len(ops) : ops[i].status = "pending"}

\* loaded: the promise's function got its page and parsed it ($ is set)
PendingOps(n) ==
  [i \in 1..n |-> [status |-> "pending", loaded |-> FALSE, value |-> <<>>,
                   reason |-> "none"]]

\* the anchors the settled catalog pages had, with or without href
RECURSIVE AnchorsSeen(_)
AnchorsSeen(ops) ==
  IF ops = <<>> THEN 0
  ELSE Len(Head(ops).value) + Head(ops).errors + AnchorsSeen(Tail(ops))


\* -------------------------------------------------------------- the state
VARIABLES
  pc,               \* where the run waits: home, catalog, items, write, assets,
                    \* or has ended: done, crashed (an uncaught error)
  catalogPageUrls,  \* executeBookScrapingJob's local: unset, null or a list
  catOps,           \* the promises of constructBookPageUrlsInCatalogPage
  catFirst,         \* the catalog page whose promise settled first (0: none),
                    \* remembered until the next stage makes a step
  bookPageUrls,     \* executeBookScrapingJob's local
  itemOps,          \* the promises of extractBookInfo
  itemLast,         \* the item page whose promise settled last (0: not yet)
  jobBookData,      \* executeBookScrapingJob's local bookData
  writeOp,          \* the promise of writeToJsonFile
  jsonFile,         \* the content of book-data.json, <<>> if never written
  bookData,         \* the top-level variable: <<>> is undefined, else <<list>>
  assetJob,         \* downloadAssets has been called
  imageData,        \* downloadAssets' local
  dlOps,            \* the promises of downloadAsset issued so far
  info,             \* the counts written at level info, in order
  log,              \* the bag of warn and error entries written
  uncaught,         \* the error that ended the process, or "none"
  probe             \* one function applied on its own: its input and output

\* the locals of executeBookScrapingJob and of the functions it awaits:
\* they are gone when it returns
jobVars ==
  <<catalogPageUrls, catOps, catFirst, bookPageUrls, itemOps, itemLast,
    jobBookData>>

vars ==
  <<pc, catalogPageUrls, catOps, catFirst, bookPageUrls, itemOps, itemLast,
    jobBookData,
    writeOp, jsonFile, bookData, assetJob, imageData, dlOps, info, log,
    uncaught, probe>>

\* no function is applied on its own during a run of the job
NoProbe == [of |-> "none", fn |-> "none", input |-> <<>>, output |-> <<>>]

InfoEntry(msg, n) == [msg |-> msg, n |-> n]

\* The run starts with executeBookScrapingJob waiting for the home page.
Init ==
  /\ pc = "home"
  /\ catalogPageUrls = [tag |-> "unset", v |-> <<>>]
  /\ catOps = <<>>
  /\ catFirst = 0
  /\ bookPageUrls = <<>>
  /\ itemOps = <<>>
  /\ itemLast = 0
  /\ jobBookData = <<>>
  /\ writeOp = "idle"
  /\ jsonFile = <<>>
  /\ bookData = <<>>
  /\ assetJob = FALSE
  /\ imageData = <<>>
  /\ dlOps = <<>>
  /\ info = <<>>
  /\ log = EmptyBag
  /\ uncaught = "none"
  /\ probe = NoProbe

\* ------------------------------------------------ top-level statements
\* executeBookScrapingJob threw err: the top-level catch logs it, bookData
\* stays undefined, and downloadAssets(undefined, ...) is called all the same;
\* its bookData.map throws a TypeError nothing catches.
JobThrows(err, entries) ==
  /\ log' = log (+) entries (+) SetToBag({ErrorEntry(err, NoAbout)})
  /\ bookData' = <<>>
  /\ assetJob' = TRUE
  /\ pc' = "crashed"
  /\ uncaught' = "TypeError"
  /\ UNCHANGED <<imageData, dlOps, info>>

\* "Number of books scraped", then await writeToJsonFile(outputFilePath,
\* bookData) is issued
IssueWrite(data, msgs) ==
  /\ jobBookData' = data
  /\ writeOp' = "pending"
  /\ pc' = "write"
  /\ info' = info \o msgs \o <<InfoEntry("books", Len(data))>>
  /\ UNCHANGED <<jsonFile, bookData, assetJob, imageData, dlOps, uncaught>>

\* "Number of book details page URLs found", then
\* extractAllBookInfo(bookPageUrls): every extractBookInfo call issues its
\* fetch at once; with no URL the stage is over at once
IssueItems(urls, msgs) ==
  /\ bookPageUrls' = urls
  /\ itemOps' = PendingOps(Len(urls))
  /\ IF urls = <<>>
       THEN IssueWrite(<<>>, msgs \o <<InfoEntry("bookPages", 0)>>)
       ELSE /\ pc' = "items"
            /\ info' = info \o msgs \o <<InfoEntry("bookPages", Len(urls))>>
            /\ UNCHANGED <<jobBookData, writeOp, jsonFile, bookData, assetJob,
                           imageData, dlOps, uncaught>>

\* "Number of catalog page URLs found", then
\* constructAllBookPageUrls(catalogPageUrls, baseUrl)
IssueCatalog(urls) ==
  /\ catOps' = [i \in 1..Len(urls) |->
                 [status |-> "pending", loaded |-> FALSE, value |-> <<>>,
                  errors |-> 0]]
  /\ IF urls = <<>>
       THEN IssueItems(<<>>, <<InfoEntry("catalogPages", 0)>>)
       ELSE /\ pc' = "catalog"
            /\ info' = Append(info, InfoEntry("catalogPages", Len(urls)))
            /\ UNCHANGED <<bookPageUrls, itemOps, jobBookData, writeOp,
                           jsonFile, bookData, assetJob, imageData, dlOps,
                           uncaught>>

\* ------------------------------------------------------------- stage 1
\* The home-page fetch of constructCatalogPageUrls settles.
HomeSettles(x, doc) ==
  /\ pc = "home"
  /\ UNCHANGED <<catFirst, itemLast>>
  /\ IF ~getHtmlResponse(x).ok
       THEN \* logs, returns null; catalogPageUrls.length then throws
            /\ catalogPageUrls' = [tag |-> "null", v |-> <<>>]
            /\ JobThrows("TypeError",
                         SetToBag({ErrorEntry(getHtmlResponse(x).err, BASE_URL)}))
            /\ UNCHANGED <<catOps, bookPageUrls, itemOps, jobBookData, writeOp,
                           jsonFile>>
       ELSE IF PageCountMatch(doc) = <<>>
         THEN /\ JobThrows("CatalogPageCountNotFoundError", EmptyBag)
              /\ UNCHANGED <<catalogPageUrls, catOps, bookPageUrls, itemOps,
                             jobBookData, writeOp, jsonFile>>
         ELSE LET urls == CatalogPageUrlList(ParseNumber(PageCountMatch(doc)))
              IN  /\ catalogPageUrls' = [tag |-> "list", v |-> urls]
                  /\ IssueCatalog(urls)
                  /\ UNCHANGED log

\* ------------------------------------------------------------- stage 2
\* (mutant) the catch block returns [] without logger.error
CatalogPageResultSilent(x, doc, catalogPageUrl) ==
  IF ~getHtmlResponse(x).ok
    THEN [loaded |-> FALSE, value |-> <<>>, errors |-> 0, entries |-> EmptyBag]
    ELSE [loaded |-> TRUE, value |-> ReduceAnchors(doc.anchors).urls,
          errors |-> ReduceAnchors(doc.anchors).errors,
          entries |-> EmptyBag]

\* constructBookPageUrlsInCatalogPage for one fetched (or failed) page
CatalogPageResult(x, doc, catalogPageUrl) ==
  IF ~getHtmlResponse(x).ok
    THEN [loaded |-> FALSE, value |-> <<>>, errors |-> 0,
          entries |-> SetToBag({ErrorEntry(getHtmlResponse(x).err, catalogPageUrl)})]
    ELSE [loaded |-> TRUE, value |-> ReduceAnchors(doc.anchors).urls,
          errors |-> ReduceAnchors(doc.anchors).errors,
          entries |-> IF ReduceAnchors(doc.anchors).errors > 0
                        THEN SetToBag({WarnEntry(ReduceAnchors(doc.anchors).errors,
                                                 catalogPageUrl)})
                        ELSE EmptyBag]

\* The fetch of catalog page i settles; the last one to settle lets
\* constructAllBookPageUrls return and the item stage start.
CatalogSettles(i, x, doc) ==
  /\ pc = "catalog"
  /\ i \in 1..Len(catOps)
  /\ catOps[i].status = "pending"
  /\ AnchorsSeen(catOps) + Len(doc.anchors) <= MaxItems
  /\ LET r == CatalogPageResult(x, doc, catalogPageUrls.v[i])
         ops == [catOps EXCEPT ![i] = [status |-> "fulfilled",
                                       loaded |-> r.loaded,
                                       value |-> r.value,
                                       errors |-> r.errors]]
     IN  /\ catOps' = ops
         /\ catFirst' = IF catFirst = 0 THEN i ELSE catFirst
         /\ log' = log (+) r.entries
         /\ IF AllSettled(ops)
              THEN IssueItems(ConcatValues(ops), <<>>)
              ELSE UNCHANGED <<pc, bookPageUrls, itemOps, jobBookData, writeOp,
                               jsonFile, bookData, assetJob, imageData, dlOps,
                               info, uncaught>>
  /\ UNCHANGED <<catalogPageUrls, itemLast>>

\* (mutant) extractBookInfo without its try/catch: a failed fetch rejects
\* the promise and nothing is logged
BookInfoResultUncaught(x, doc, bookPageUrl) ==
  IF ~getHtmlResponse(x).ok
    THEN [status |-> "rejected", loaded |-> FALSE, value |-> <<>>,
          reason |-> getHtmlResponse(x).err, entries |-> EmptyBag]
    ELSE LET parsed == ParsedPages[doc, bookPageUrl.n]
         IN  IF parsed.ok
               THEN [status |-> "fulfilled", loaded |-> TRUE,
                     value |-> parsed.value, reason |-> "none",
                     entries |-> EmptyBag]
               ELSE [status |-> "rejected", loaded |-> TRUE, value |-> <<>>,
                     reason |-> parsed.err, entries |-> EmptyBag]

\* ------------------------------------------------------------- stage 3
\* extractBookInfo for one fetched (or failed) item page: null with a logged
\* error when the fetch fails; otherwise whatever parseBookInfo returns or
\* throws, outside of any try block
BookInfoResult(x, doc, bookPageUrl) ==
  IF ~getHtmlResponse(x).ok
    THEN [status |-> "fulfilled", loaded |-> FALSE, value |-> <<>>,
          reason |-> "none",
          entries |-> SetToBag({ErrorEntry(getHtmlResponse(x).err, bookPageUrl)})]
    ELSE LET parsed == ParsedPages[doc, bookPageUrl.n]
         IN  IF parsed.ok
               THEN [status |-> "fulfilled", loaded |-> TRUE,
                     value |-> parsed.value, reason |-> "none",
                     entries |-> EmptyBag]
               ELSE [status |-> "rejected", loaded |-> TRUE, value |-> <<>>,
                     reason |-> parsed.err, entries |-> EmptyBag]

\* The fetch of item page i settles; the last one to settle lets
\* extractAllBookInfo return and the JSON write start.
ItemSettles(i, x, doc) ==
  /\ pc = "items"
  /\ i \in 1..Len(itemOps)
  /\ itemOps[i].status = "pending"
  /\ LET r == BookInfoResult(x, doc, bookPageUrls[i])
         ops == [itemOps EXCEPT ![i] = [status |-> r.status,
                                        loaded |-> r.loaded,
                                        value |-> r.value,
                                        reason |-> r.reason]]
     IN  /\ itemOps' = ops
         /\ itemLast' = IF AllSettled(ops) THEN i ELSE 0
         /\ log' = log (+) r.entries
         /\ IF AllSettled(ops)
              THEN IssueWrite(CollectValues(ops), <<>>)
              ELSE UNCHANGED <<pc, jobBookData, writeOp, jsonFile, bookData,
                               assetJob, imageData, dlOps, info, uncaught>>
  /\ catFirst' = 0
  /\ UNCHANGED <<catalogPageUrls, catOps, bookPageUrls>>

\* --------------------------------------------------------- stages 4 and 5
\* what mkdir and writeFile come to
DiskOutcomes == {"ok", "mkdirFails", "writeFails"}

\* writeToJsonFile: any error of mkdir or writeFile becomes FileWriteError
writeToJsonFile(io) ==
  IF io = "ok" THEN [ok |-> TRUE, err |-> "none"]
  ELSE [ok |-> FALSE, err |-> "FileWriteError"]

UPC == <<"U", "P", "C">>

HasUpc(datum) ==
  \E k \in 1..Len(datum.productInfo) : datum.productInfo[k].key = UPC

\* (mutant) findLast in place of find: the value of the last "UPC" entry
UpcValueLast(datum) ==
  LET last == CHOOSE k \in 1..Len(datum.productInfo) :
                /\ datum.productInfo[k].key = UPC
                /\ \A j \in (k + 1)..Len(datum.productInfo) :
                     datum.productInfo[j].key # UPC
  IN  datum.productInfo[last].value

\* datum.productInfo.find((item) => item.key === "UPC").value
UpcValue(datum) ==
  LET first == CHOOSE k \in 1..Len(datum.productInfo) :
                 /\ datum.productInfo[k].key = UPC
                 /\ \A j \in 1..(k - 1) : datum.productInfo[j].key # UPC
  IN  datum.productInfo[first].value

\* bookData.map((datum) => ({url, identifier})), defined when every datum
\* has a UPC entry
ImageDataOf(data) ==
  [k \in 1..Len(data) |->
     [url |-> data[k].imageUrl, identifier |-> UpcValue(data[k])]]

\* imageDatum.url.match(/(?!\.)[a-z0-9]+$/i): <<>> is the null match
ImageExtension(url) ==
  TrailingRun(UrlTail(url), Digits \cup LowerCase \cup UpperCase)

\* path.resolve(dataDirectory, `${identifier}.${imageExtension}`)
ImageFilePath(imageDatum) ==
  AssetFilePath(imageDatum.identifier \o <<".">> \o ImageExtension(imageDatum.url))

\* The map callback of downloadBookImages runs for the descriptors in order
\* and throws at the first URL without extension: the downloads before it
\* are already issued.  The number of descriptors the callback got through.
RECURSIVE MappedPrefix(_)
MappedPrefix(data) ==
  IF data = <<>> THEN 0
  ELSE IF ImageExtension(Head(data).url) = <<>> THEN 0
  ELSE 1 + MappedPrefix(Tail(data))

\* downloadAsset just called: it waits for getAssetStream
IssuedDownloads(data, n) ==
  [k \in 1..n |-> [status |-> "pending", at |-> "fetch",
                   url |-> data[k].url, file |-> ImageFilePath(data[k]),
                   reason |-> "none"]]

\* the forEach of downloadAssets: logger.error(result.reason.message) for
\* every rejected result
RECURSIVE RejectedEntries(_)
RejectedEntries(results) ==
  IF results = <<>> THEN EmptyBag
  ELSE LET result == Head(results)
       IN  (IF result.status = "rejected"
              THEN SetToBag({ErrorEntry(result.reason,
                                        IF result.reason = "FileWriteError"
                                          THEN result.file ELSE result.url)})
              ELSE EmptyBag) (+) RejectedEntries(Tail(results))

\* the forEach of downloadAssets: ++rejectedPromises
RECURSIVE RejectedPromises(_)
RejectedPromises(results) ==
  IF results = <<>> THEN 0
  ELSE (IF Head(results).status = "rejected" THEN 1 ELSE 0)
       + RejectedPromises(Tail(results))

\* "Number of assets successfully downloaded"
DownloadedEntry(data, results) ==
  InfoEntry("downloaded", Len(data) - RejectedPromises(results))

\* downloadAssets(bookData, ...) from its first statement to its await
StartAssets(data, entries) ==
  /\ assetJob' = TRUE
  /\ IF \E k \in 1..Len(data) : ~HasUpc(data[k])
       THEN \* find(...) is undefined: .value throws, nothing catches
            /\ imageData' = <<>>
            /\ dlOps' = <<>>
            /\ log' = log (+) entries
            /\ pc' = "crashed"
            /\ uncaught' = "TypeError"
            /\ UNCHANGED info
       ELSE /\ imageData' = ImageDataOf(data)
            /\ dlOps' = IssuedDownloads(ImageDataOf(data),
                                        MappedPrefix(ImageDataOf(data)))
            /\ IF MappedPrefix(ImageDataOf(data)) < Len(data)
                 THEN \* match(...) is null: downloadBookImages rejects
                      /\ log' = log (+) entries
                      /\ pc' = "crashed"
                      /\ uncaught' = "TypeError"
                      /\ info' = Append(info, InfoEntry("assets", Len(data)))
                 ELSE IF data = <<>>
                   THEN /\ log' = log (+) entries
                        /\ pc' = "done"
                        /\ info' = info \o <<InfoEntry("assets", 0),
                                             DownloadedEntry(<<>>, <<>>)>>
                        /\ UNCHANGED uncaught
                   ELSE /\ log' = log (+) entries
                        /\ pc' = "assets"
                        /\ info' = Append(info, InfoEntry("assets", Len(data)))
                        /\ UNCHANGED uncaught

\* (mutant) writeToJsonFile awaited outside of a try block: its rejection
\* leaves executeBookScrapingJob like any other error of the job
WriteSettlesFatal(io) ==
  /\ pc = "write"
  /\ writeOp' = IF writeToJsonFile(io).ok THEN "fulfilled" ELSE "rejected"
  /\ jsonFile' = IF writeToJsonFile(io).ok THEN <<jobBookData>> ELSE jsonFile
  /\ IF writeToJsonFile(io).ok
       THEN /\ bookData' = <<jobBookData>>
            /\ StartAssets(jobBookData, EmptyBag)
       ELSE JobThrows(writeToJsonFile(io).err, EmptyBag)
  /\ catalogPageUrls' = [tag |-> "unset", v |-> <<>>]
  /\ catOps' = <<>>
  /\ catFirst' = 0
  /\ bookPageUrls' = <<>>
  /\ itemOps' = <<>>
  /\ itemLast' = 0
  /\ jobBookData' = <<>>

\* writeToJsonFile settles: a failure is logged inside executeBookScrapingJob,
\* which returns bookData either way; the top level then calls downloadAssets.
WriteSettles(io) ==
  /\ pc = "write"
  /\ writeOp' = IF writeToJsonFile(io).ok THEN "fulfilled" ELSE "rejected"
  /\ jsonFile' = IF writeToJsonFile(io).ok THEN <<jobBookData>> ELSE jsonFile
  /\ bookData' = <<jobBookData>>
  /\ StartAssets(jobBookData,
                 IF writeToJsonFile(io).ok THEN EmptyBag
                 ELSE SetToBag({ErrorEntry(writeToJsonFile(io).err, OutputFilePath)}))
  /\ catalogPageUrls' = [tag |-> "unset", v |-> <<>>]
  /\ catOps' = <<>>
  /\ catFirst' = 0
  /\ bookPageUrls' = <<>>
  /\ itemOps' = <<>>
  /\ itemLast' = 0
  /\ jobBookData' = <<>>

\* One promise of downloadAsset moves on; the last one to settle lets
\* downloadBookImages resolve and downloadAssets finish.
DlStep(i, op) ==
  /\ dlOps' = [dlOps EXCEPT ![i] = op]
  /\ IF AllSettled([dlOps EXCEPT ![i] = op])
       THEN /\ log' = log (+) RejectedEntries([dlOps EXCEPT ![i] = op])
            /\ info' = Append(info, DownloadedEntry(imageData,
                                                    [dlOps EXCEPT ![i] = op]))
            /\ pc' = "done"
       ELSE UNCHANGED <<pc, log, info>>
  /\ UNCHANGED <<jobVars, writeOp, jsonFile, bookData, assetJob, imageData,
                 uncaught>>

Rejected(op, err) == [op EXCEPT !.status = "rejected", !.at = "end", !.reason = err]

\* await getAssetStream(assetUrl) settles
DlFetchSettles(i, x) ==
  /\ pc = "assets"
  /\ i \in 1..Len(dlOps)
  /\ dlOps[i].status = "pending" /\ dlOps[i].at = "fetch"
  /\ DlStep(i, IF getAssetStream(x).ok
                 THEN [dlOps[i] EXCEPT !.at = "mkdir"]
                 ELSE Rejected(dlOps[i], getAssetStream(x).err))

\* await mkdir(...) settles; on success the stream is piped to the writer
DlMkdirSettles(i, ok) ==
  /\ pc = "assets"
  /\ i \in 1..Len(dlOps)
  /\ dlOps[i].status = "pending" /\ dlOps[i].at = "mkdir"
  /\ DlStep(i, IF ok THEN [dlOps[i] EXCEPT !.at = "pipe"]
               ELSE Rejected(dlOps[i], "FileWriteError"))

\* writer emits "finish"
DlWriterFinish(i) ==
  /\ pc = "assets"
  /\ i \in 1..Len(dlOps)
  /\ dlOps[i].status = "pending" /\ dlOps[i].at = "pipe"
  /\ DlStep(i, [dlOps[i] EXCEPT !.status = "fulfilled", !.at = "end"])

\* writer emits "error"
DlWriterError(i) ==
  /\ pc = "assets"
  /\ i \in 1..Len(dlOps)
  /\ dlOps[i].status = "pending" /\ dlOps[i].at = "pipe"
  /\ DlStep(i, Rejected(dlOps[i], "FileWriteError"))

\* The source stream emits "error".  pipe() does not forward it and
\* downloadAsset listens on the writer only: the promise stays pending, or,
\* when the stream has no error listener at all, the event is thrown as an
\* uncaught exception.
DlSourceError(i, thrown) ==
  /\ pc = "assets"
  /\ i \in 1..Len(dlOps)
  /\ dlOps[i].status = "pending" /\ dlOps[i].at = "pipe"
  /\ IF thrown
       THEN /\ pc' = "crashed"
            /\ uncaught' = "StreamError"
            /\ UNCHANGED <<jobVars, writeOp, jsonFile, bookData, assetJob,
                           imageData, dlOps, info, log>>
       ELSE DlStep(i, [dlOps[i] EXCEPT !.at = "stalled"])

\* A failed exchange delivers no document: one input per failing exchange.
PageInputs(docs) ==
  {in \in Exchanges \X docs :
     getHtmlResponse(in[1]).ok \/ in[2] = (CHOOSE d \in docs : TRUE)}

HomeInputs == PageInputs(HomeDocs)

CatalogInputs == PageInputs(CatalogDocs)

ItemInputs == PageInputs(ItemDocs)

Next ==
  \/ /\ pc = "home" /\ \E in \in HomeInputs : HomeSettles(in[1], in[2])
     /\ UNCHANGED probe
  \/ /\ pc = "catalog" /\ \E i \in Pending(catOps), in \in CatalogInputs :
          CatalogSettles(i, in[1], in[2])
     /\ UNCHANGED probe
  \/ /\ pc = "items" /\ \E i \in Pending(itemOps), in \in ItemInputs :
          ItemSettles(i, in[1], in[2])
     /\ UNCHANGED probe
  \/ /\ pc = "write" /\ \E io \in DiskOutcomes : WriteSettles(io)
     /\ UNCHANGED probe
  \/ /\ pc = "assets" /\ \E i \in Pending(dlOps), x \in Exchanges :
          DlFetchSettles(i, x)
     /\ UNCHANGED probe
  \/ /\ pc = "assets" /\ \E i \in Pending(dlOps), ok \in BOOLEAN :
          DlMkdirSettles(i, ok)
     /\ UNCHANGED probe
  \/ /\ pc = "assets" /\ \E i \in Pending(dlOps) : DlWriterFinish(i)
     /\ UNCHANGED probe
  \/ /\ pc = "assets" /\ \E i \in Pending(dlOps) : DlWriterError(i)
     /\ UNCHANGED probe
  \/ /\ pc = "assets" /\ \E i \in Pending(dlOps), thrown \in BOOLEAN :
          DlSourceError(i, thrown)
     /\ UNCHANGED probe

Spec == Init /\ [][Next]_vars

\* ==================================================== functions on their own
\* A second specification applies one function of the program to one input
\* and keeps input and output in probe; the job itself does not run.
Probing(of, input) ==
  [of |-> of, fn |-> "none", input |-> input, output |-> <<>>]

\* the characters of the pagination texts tried
PaginationChars == {"P", " ", "0", "1", "2"}

\* home pages: every text of li.current over PaginationChars
ProbeHomeDocs == {[pagination |-> t] : t \in SeqsUpTo(PaginationChars, MaxText)}

ProbeHomeInputs ==
  {[x |-> in[1], doc |-> in[2]] : in \in PageInputs(ProbeHomeDocs)}

\* catalog pages: every list of anchors without href, with an empty href
\* or with one of the links
ProbeCatalogDocs ==
  {[anchors |-> a] : a \in SeqsUpTo({0, EmptyHref} \cup Hrefs, MaxAnchors)}

ProbeCatalogInputs ==
  {[x |-> in[1], doc |-> in[2]] : in \in PageInputs(ProbeCatalogDocs)}

\* item pages, each differing from GoodDoc in what one selector finds:
\* the breadcrumbs
BreadcrumbDocs ==
  {[GoodDoc EXCEPT !.breadcrumbs = b] :
     b \in SeqsUpTo({<<>>, <<" ", "F">>, <<"H">>}, MaxText)}

\* the title elements: none, one (with or without text), two
TitleDocs ==
  {[GoodDoc EXCEPT !.titles = t] :
     t \in {<<>>, <<<<>>>>, <<<<" ", "T", " ">>>>, <<<<"T">>, <<"V">>>>}}

\* the class attribute of the rating element: <<>> when the element is
\* absent or has no class attribute (attr gives undefined in both cases)
RatingDocs ==
  {[GoodDoc EXCEPT !.ratingClass = <<>>]} \cup
  {[GoodDoc EXCEPT !.ratingClass = <<c>>] :
     c \in SeqsUpTo({"s", " ", "O", "n"}, MaxText)}

\* the description paragraph: absent, empty, blank, with text
DescriptionDocs ==
  {[GoodDoc EXCEPT !.description = d] :
     d \in {<<>>, <<<<>>>>, <<<<" ">>>>, <<<<" ", "d">>>>}}

\* the texts of the cells tried
CellTexts == {<<"a">>, <<" ", "b">>}

\* the header cells and the data cells of the page
ProductInfoDocs ==
  {[GoodDoc EXCEPT !.keys = k, !.values = v] :
     k \in SeqsUpTo(CellTexts, MaxCells), v \in SeqsUpTo(CellTexts, MaxCells)}

\* the src attribute of the image: <<>> when the image is absent or has no
\* src attribute
ImageDocs ==
  {[GoodDoc EXCEPT !.imgSrc = i] :
     i \in {<<>>, <<<<>>>>, <<<<"m", "/", "a", ".", "j", "p", "g">>>>,
            <<<<" ", "a", ".", "p", "n", "g", " ">>>>}}

ProbeItemDocs ==
  BreadcrumbDocs \cup TitleDocs \cup RatingDocs \cup DescriptionDocs
    \cup ProductInfoDocs \cup ImageDocs

\* one request of the crawler: the exchange it comes to
ProbeExchanges == Exchanges

\* the characters of the identifiers tried
IdentifierChars == {"a", ".", "/"}

\* the ends of the image URLs tried
ProbeUrlTails == {<<"m", "/", "a", ".", "j", "p", "g">>, <<"m", "/">>}

\* asset descriptors {url, identifier}
ProbeDescriptors ==
  {[url |-> AssetUrl(tail, BookPageUrl(1)), identifier |-> id] :
     tail \in ProbeUrlTails, id \in SeqsUpTo(IdentifierChars, MaxIdentifier)}

\* imageData: two descriptors, the second with the .jpg URL
ProbeImageData ==
  {<<first, second>> :
     first \in ProbeDescriptors,
     second \in {d \in ProbeDescriptors : ImageExtension(d.url) # <<>>}}

ProbeInit ==
  /\ pc = "probe"
  /\ catalogPageUrls = [tag |-> "unset", v |-> <<>>]
  /\ catOps = <<>>
  /\ catFirst = 0
  /\ bookPageUrls = <<>>
  /\ itemOps = <<>>
  /\ itemLast = 0
  /\ jobBookData = <<>>
  /\ writeOp = "idle"
  /\ jsonFile = <<>>
  /\ bookData = <<>>
  /\ assetJob = FALSE
  /\ imageData = <<>>
  /\ dlOps = <<>>
  /\ info = <<>>
  /\ log = EmptyBag
  /\ uncaught = "none"
  /\ \/ \E input \in ProbeHomeInputs : probe = Probing("home", input)
     \/ \E input \in ProbeItemDocs : probe = Probing("item", input)
     \/ \E input \in ProbeExchanges : probe = Probing("exchange", input)
     \/ \E input \in ProbeImageData : probe = Probing("images", input)
     \/ \E input \in ProbeCatalogInputs : probe = Probing("catalog", input)

\* the function fn is applied to the input and gives output
Applied(of, fn, output) ==
  /\ pc = "probe"
  /\ probe.of = of
  /\ probe.fn = "none"
  /\ probe' = [probe EXCEPT !.fn = fn, !.output = output]
  /\ UNCHANGED <<pc, jobVars, writeOp, jsonFile, bookData, assetJob,
                 imageData, dlOps, info, log, uncaught>>

ApplyConstructCatalogPageUrls ==
  /\ probe.of = "home"
  /\ Applied("home", "constructCatalogPageUrls",
             constructCatalogPageUrls(probe.input.x, probe.input.doc))

\* the six extractors, each applied to the same parsed page
ApplyExtractors ==
  /\ probe.of = "item"
  /\ Applied("item", "extractors",
             [category |-> extractBookCategory(probe.input),
              title |-> extractBookTitle(probe.input),
              rating |-> extractBookRating(probe.input),
              description |-> extractBookDescription(probe.input),
              productInfo |-> extractBookProductInfo(probe.input),
              imageUrl |-> extractBookImageUrl(probe.input, BookPageUrl(1))])

\* getHtmlResponse and getAssetStream for a request that comes to the
\* exchange probe.input
ApplyCrawler ==
  /\ probe.of = "exchange"
  /\ Applied("exchange", "crawler",
             [html |-> getHtmlResponse(probe.input),
              stream |-> getAssetStream(probe.input)])

\* downloadBookImages(imageData, dataDirectory) up to Promise.allSettled:
\* the downloadAsset calls it makes, and whether its map callback threw
ApplyDownloadBookImages ==
  /\ probe.of = "images"
  /\ Applied("images", "downloadBookImages",
             [ok |-> MappedPrefix(probe.input) = Len(probe.input),
              calls |-> IssuedDownloads(probe.input, MappedPrefix(probe.input))])

\* constructBookPageUrlsInCatalogPage for catalogue/page-1.html: what it
\* returns and what it logs
ApplyConstructBookPageUrlsInCatalogPage ==
  /\ probe.of = "catalog"
  /\ Applied("catalog", "constructBookPageUrlsInCatalogPage",
             CatalogPageResult(probe.input.x, probe.input.doc, CatalogPageUrl(1)))

ProbeNext ==
  \/ ApplyConstructCatalogPageUrls
  \/ ApplyExtractors
  \/ ApplyCrawler
  \/ ApplyDownloadBookImages
  \/ ApplyConstructBookPageUrlsInCatalogPage

ProbeSpec == ProbeInit /\ [][ProbeNext]_vars

\* ================================================================ claims
Settled(op) == op.status \in {"fulfilled", "rejected"}

EverySettled(ops) == \A i \in 1..Len(ops) : Settled(ops[i])

ErrorCount == BagCardinality([e \in {f \in BagToSet(log) : f.level = "error"} |-> log[e]])

\* the number of error entries named err about the URL or path about
Errors(err, about) ==
  IF BagIn(ErrorEntry(err, about), log) THEN log[ErrorEntry(err, about)] ELSE 0

\* C1: the stages run in strict sequence, each behind a settle-all barrier:
\* a catalog-page fetch is in flight only after the home-page fetch settled,
\* an item-page fetch only after every catalog-page promise settled, the JSON
\* write only after every extractBookInfo promise settled, and an asset
\* download only after the JSON write settled.
C1_StageBarriers ==
  /\ Len(catOps) > 0 => pc # "home"
  /\ pc = "home" => catalogPageUrls.tag = "unset"
  /\ Len(itemOps) > 0 => EverySettled(catOps)
  /\ pc \in {"items", "write"} => EverySettled(catOps)
  /\ writeOp # "idle" => EverySettled(catOps) /\ EverySettled(itemOps)
  /\ pc = "write" <=> writeOp = "pending"
  /\ Len(dlOps) > 0 => writeOp \in {"fulfilled", "rejected"}
  /\ pc \in {"assets", "done"} => writeOp \in {"fulfilled", "rejected"}

\* C1 witness: the run got to the asset stage, where the second download
\* has settled while the first is still pending.
C1_Witness ==
  /\ pc = "assets"
  /\ Len(dlOps) = 2
  /\ dlOps[1].status = "pending"
  /\ Settled(dlOps[2])

\* the item promises whose page was fetched and loaded
FetchedItems == {i \in 1..Len(itemOps) : itemOps[i].loaded}

\* the position among the fetched items of item i
FetchedRank(i) == Cardinality({j \in FetchedItems : j <= i})

\* extractAllBookInfo has resolved and no fetched page failed to extract
ItemsExtractable ==
  /\ pc = "write"
  /\ \A i \in FetchedItems : itemOps[i].status = "fulfilled"

\* C2: when the fetch fails for some of the item pages and every fetched
\* page is extractable, extractAllBookInfo resolves with exactly one record
\* per fetched page, in input order, none for a failed one, and every failed
\* fetch is in the error log.
C2_FetchFailuresSkipped ==
  ItemsExtractable =>
    /\ uncaught = "none"
    /\ Len(jobBookData) = Cardinality(FetchedItems)
    /\ \A i \in FetchedItems : jobBookData[FetchedRank(i)].url = bookPageUrls[i]
    /\ \A i \in (1..Len(itemOps)) \ FetchedItems :
         /\ itemOps[i].status = "fulfilled"
         /\ Errors("NoResponseError", bookPageUrls[i])
              = Cardinality({j \in (1..Len(itemOps)) \ FetchedItems :
                               bookPageUrls[j] = bookPageUrls[i]})

\* C2 witness: of two item pages the first fetch failed and the second page
\* gave the only record.
C2_Witness ==
  /\ ItemsExtractable
  /\ Len(itemOps) = 2
  /\ ~itemOps[1].loaded
  /\ itemOps[2].loaded
  /\ Len(jobBookData) = 1

\* C3: an item page that was fetched and whose extraction fails is left out
\* of the result and leaves an error-level log entry about it (the claim as
\* the specification states it; the code logs nothing for such an item).
C3_ExtractionFailureLogged ==
  pc = "write" =>
    \A i \in FetchedItems :
      itemOps[i].status = "rejected" =>
        /\ Len(jobBookData) < Len(itemOps)
        /\ \E e \in BagToSet(log) : e.level = "error" /\ e.about = bookPageUrls[i]

\* the count of the info-level entry msg of this run
InfoCount(msg) ==
  LET at == {k \in 1..Len(info) : info[k].msg = msg}
  IN  IF at = {} THEN 0 ELSE info[CHOOSE k \in at : TRUE].n

\* C4: a finished run whose error log is empty succeeded: every discovered
\* item gave a record, the JSON file holds the records, and every asset was
\* downloaded (the claim as the specification states it).
C4_EmptyErrorLogMeansSuccess ==
  (pc = "done" /\ ErrorCount = 0) =>
    /\ InfoCount("books") = InfoCount("bookPages")
    /\ writeOp = "fulfilled"
    /\ jsonFile = bookData
    /\ Len(dlOps) = InfoCount("books")
    /\ \A k \in 1..Len(dlOps) : dlOps[k].status = "fulfilled"

\* C5: once an operation of stages 1 to 3 has thrown and the top level has
\* logged the error, the run ends without entering the asset-download stage
\* and without an uncaught error (the claim as the specification states it).
C5_JobErrorEndsRun ==
  Errors("CatalogPageCountNotFoundError", NoAbout) > 0 =>
    /\ ~assetJob
    /\ uncaught = "none"

\* C6: when the home page cannot be fetched, the null of
\* constructCatalogPageUrls counts as zero catalog pages: no error is raised
\* and the job returns the empty record list (the claim as the specification
\* states it).
C6_NullMeansNoPages ==
  catalogPageUrls.tag = "null" =>
    /\ Errors("NoResponseError", BASE_URL) = 1
    /\ ErrorCount = 1
    /\ uncaught = "none"
    /\ bookData = <<<<>>>>

\* every record has what downloadAssets needs to build its descriptor
AssetsDerivable(data) ==
  \A k \in 1..Len(data) :
    HasUpc(data[k]) /\ ImageExtension(data[k].imageUrl) # <<>>

\* C7: a failure of the JSON write is not fatal: it is logged as a
\* FileWriteError naming the output path, nothing is written,
\* executeBookScrapingJob still returns the full record list, and the asset
\* stage is entered with it: one download is issued for every record.
C7_WriteFailureNotFatal ==
  [][(pc = "write" /\ writeOp' = "rejected") =>
       /\ BagIn(ErrorEntry("FileWriteError", OutputFilePath), log')
       /\ log'[ErrorEntry("FileWriteError", OutputFilePath)] = 1
       /\ jsonFile' = jsonFile
       /\ bookData' = <<jobBookData>>
       /\ assetJob'
       /\ AssetsDerivable(jobBookData) =>
            /\ uncaught' = "none"
            /\ Len(imageData') = Len(jobBookData)
            /\ Len(dlOps') = Len(jobBookData)
            /\ \A k \in 1..Len(jobBookData) :
                 dlOps'[k].url = jobBookData[k].imageUrl]_vars

\* C7 witness: the write failed, nothing is on disk, and the downloads of
\* both returned records are in flight.
C7_Witness ==
  /\ writeOp = "rejected"
  /\ jsonFile = <<>>
  /\ Errors("FileWriteError", OutputFilePath) = 1
  /\ pc = "assets"
  /\ Len(bookData[1]) = 2
  /\ Len(dlOps) = 2

\* C8: no failure of an asset is fatal, a URL without a parseable extension
\* included: downloadBookImages resolves with one settled result per
\* descriptor, every failed asset is logged, the success count is the total
\* minus the failures, and downloadAssets does not throw (the claim as the
\* specification states it).
C8_AssetFailuresNotFatal ==
  imageData # <<>> =>
    /\ uncaught = "none"
    /\ pc # "crashed"
    /\ pc = "done" =>
         /\ Len(dlOps) = Len(imageData)
         /\ EverySettled(dlOps)
         /\ InfoCount("downloaded")
              = Len(imageData)
                - Cardinality({k \in 1..Len(dlOps) : dlOps[k].status = "rejected"})

\* the index in bookPageUrls before the first URL of catalog page i
RECURSIVE PageOffset(_)
PageOffset(i) ==
  IF i = 1 THEN 0 ELSE PageOffset(i - 1) + Len(catOps[i - 1].value)

\* constructAllBookPageUrls has resolved and its result is still in scope
CatalogResolved == pc \in {"items", "write"}

\* C9: the list of constructAllBookPageUrls is the concatenation of the
\* per-page lists in the order of the catalog-page URLs, whatever the order
\* in which the fetches completed.
C9_ConcatenationInInputOrder ==
  CatalogResolved =>
    /\ Len(bookPageUrls) = PageOffset(Len(catOps) + 1)
    /\ \A i \in 1..Len(catOps) :
         \A k \in 1..Len(catOps[i].value) :
           bookPageUrls[PageOffset(i) + k] = catOps[i].value[k]

\* C9 witness: page 2 completed first, and its URL still comes second.
C9_Witness ==
  /\ pc = "items"
  /\ catFirst = 2
  /\ Len(catOps) = 2
  /\ catOps[1].value = <<BookPageUrl(1)>>
  /\ catOps[2].value = <<BookPageUrl(2)>>
  /\ bookPageUrls = <<BookPageUrl(1), BookPageUrl(2)>>

\* the catalog pages that were fetched and loaded
FetchedPages == {i \in 1..Len(catOps) : catOps[i].loaded}

\* the places <<page, index>> where a fetched page lists the URL u
ListedAt(u) ==
  UNION {{<<i, k>> : k \in {j \in 1..Len(catOps[i].value) :
                              catOps[i].value[j] = u}} : i \in FetchedPages}

\* C10: a catalog page whose fetch fails gives the empty list and one
\* logged error, its promise is fulfilled, and the overall list holds
\* exactly the URLs listed by the pages that were fetched.
C10_FailedPageContributesNothing ==
  CatalogResolved =>
    /\ \A i \in 1..Len(catOps) : catOps[i].status = "fulfilled"
    /\ \A i \in (1..Len(catOps)) \ FetchedPages :
         /\ catOps[i].value = <<>>
         /\ Errors("NoResponseError", catalogPageUrls.v[i]) = 1
    /\ \A i \in FetchedPages :
         Errors("NoResponseError", catalogPageUrls.v[i]) = 0
    /\ \A u \in {BookPageUrl(h) : h \in Hrefs} :
         Cardinality({k \in 1..Len(bookPageUrls) : bookPageUrls[k] = u})
           = Cardinality(ListedAt(u))

\* C10 witness: the fetch of page 1 failed and page 2 listed two items,
\* which are the whole result.
C10_Witness ==
  /\ pc = "items"
  /\ Len(catOps) = 2
  /\ ~catOps[1].loaded
  /\ catOps[2].loaded
  /\ Len(catOps[2].value) = 2
  /\ Len(bookPageUrls) = 2

\* the keys of an item record
RecordKeys ==
  {"url", "category", "title", "rating", "description", "productInfo",
   "imageUrl"}

\* what each of the six extractors gives for every item page at every item
\* URL, computed once
Extractions ==
  [doc \in ItemDocs, href \in Hrefs |->
     [category |-> extractBookCategory(doc),
      title |-> extractBookTitle(doc),
      rating |-> extractBookRating(doc),
      description |-> extractBookDescription(doc),
      productInfo |-> extractBookProductInfo(doc),
      imageUrl |-> extractBookImageUrl(doc, BookPageUrl(href))]]

\* record holds, field by field, what the six extractors returned for the
\* page doc at record.url, none of them having thrown
ExtractedFrom(record, doc) ==
  LET got == Extractions[doc, record.url.n]
  IN  /\ record.url = BookPageUrl(record.url.n)
      /\ \A field \in RecordKeys \ {"url"} :
           got[field].ok /\ record[field] = got[field].value

\* the item promises that were fulfilled with a record
RecordItems ==
  {i \in 1..Len(itemOps) : itemOps[i].status = "fulfilled" /\ itemOps[i].loaded}

\* C11: every record of the list extractAllBookInfo returns is complete: it
\* has the seven keys and each field is what its extractor returned, without
\* error, for one page; an item whose extraction failed gives no record at
\* all, so the list has as many records as items whose extraction succeeded.
C11_RecordsComplete ==
  pc = "write" =>
    /\ Len(jobBookData) = Cardinality(RecordItems)
    /\ \A k \in 1..Len(jobBookData) :
         /\ DOMAIN jobBookData[k] = RecordKeys
         /\ \E doc \in ItemDocs : ExtractedFrom(jobBookData[k], doc)
         /\ \E i \in RecordItems : jobBookData[k].url = bookPageUrls[i]

\* C11 witness: of two fetched item pages one failed to extract; the list
\* holds the one complete record of the other.
C11_Witness ==
  /\ pc = "write"
  /\ Len(itemOps) = 2
  /\ itemOps[1].status = "rejected"
  /\ itemOps[1].loaded
  /\ itemOps[2].status = "fulfilled"
  /\ Len(jobBookData) = 1
  /\ jobBookData[1].url = bookPageUrls[2]

\* every catalog page and every item page was fetched, and every item page
\* was extractable
AllFetchedAndExtracted ==
  /\ pc = "write"
  /\ \A i \in 1..Len(catOps) : catOps[i].loaded
  /\ \A i \in 1..Len(itemOps) :
       itemOps[i].loaded /\ itemOps[i].status = "fulfilled"

\* the number of item links found on all catalog pages together
LinksFound == PageOffset(Len(catOps) + 1)

\* C12: when every fetch succeeds and every item page is extractable, the
\* record list has exactly one record per item link found on the catalog
\* pages, duplicates kept: its length is the sum of the numbers of links of
\* the pages, its k-th record is the record of the k-th item URL, and every
\* record has the seven keys.
C12_OneRecordPerLink ==
  AllFetchedAndExtracted =>
    /\ Len(jobBookData) = LinksFound
    /\ \A k \in 1..Len(jobBookData) :
         /\ jobBookData[k].url = bookPageUrls[k]
         /\ DOMAIN jobBookData[k] = RecordKeys

\* C12 witness: two catalog pages, each with one link, both to the same
\* item: two (equal) records.
C12_Witness ==
  /\ AllFetchedAndExtracted
  /\ Len(catOps) = 2
  /\ catOps[1].value = <<BookPageUrl(1)>>
  /\ catOps[2].value = <<BookPageUrl(1)>>
  /\ Len(jobBookData) = 2
  /\ jobBookData[1] = jobBookData[2]

\* C13: a downloadAsset call whose fetch succeeded settles whatever goes
\* wrong: an error event of the source byte stream rejects its promise with
\* FileWriteError, as an error of the file writer does; the promise is not
\* left pending and the error does not end the process (the claim as the
\* specification states it).
C13_StreamErrorRejects ==
  /\ uncaught # "StreamError"
  /\ \A k \in 1..Len(dlOps) :
       dlOps[k].at = "stalled" =>
         /\ dlOps[k].status = "rejected"
         /\ dlOps[k].reason = "FileWriteError"

\* constructCatalogPageUrls was applied to a home page that was fetched
HomePageRead ==
  /\ probe.fn = "constructCatalogPageUrls"
  /\ probe.input.x.kind = "response"
  /\ probe.input.x.status = 200

\* the places of the characters of text t that are not white space
Inked(t) == {k \in 1..Len(t) : t[k] # " "}

\* the place of the last character of t that is not white space
LastInked(t) == CHOOSE k \in Inked(t) : \A j \in Inked(t) : j <= k

\* t read without its white space at the end ends with a digit
EndsWithInteger(t) == Inked(t) # {} /\ t[LastInked(t)] \in Digits

\* the place where the integer at the end of t starts
IntegerStart(t) ==
  CHOOSE j \in 1..LastInked(t) :
    /\ \A k \in j..LastInked(t) : t[k] \in Digits
    /\ j = 1 \/ t[j - 1] \notin Digits

\* ten to the power of n
RECURSIVE TenTo(_)
TenTo(n) == IF n = 0 THEN 1 ELSE 10 * TenTo(n - 1)

\* the number written by the digits of t at places from..to
RECURSIVE WrittenNumber(_, _, _)
WrittenNumber(t, from, to) ==
  IF from > to THEN 0
  ELSE DigitValue(t[from]) * TenTo(to - from) + WrittenNumber(t, from + 1, to)

\* the page count the pagination text t announces
AnnouncedPages(t) == WrittenNumber(t, IntegerStart(t), LastInked(t))

\* C14: for every page count N >= 1 read from the pagination indicator,
\* constructCatalogPageUrls returns exactly N URLs, the i-th being the URL of
\* catalogue/page-i.html for i = 1..N.
C14_PagesOneToN ==
  (HomePageRead /\ EndsWithInteger(probe.input.doc.pagination)
     /\ AnnouncedPages(probe.input.doc.pagination) >= 1) =>
    /\ probe.output.tag = "list"
    /\ Len(probe.output.v) = AnnouncedPages(probe.input.doc.pagination)
    /\ \A i \in 1..AnnouncedPages(probe.input.doc.pagination) :
         probe.output.v[i] = CatalogPageUrl(i)

\* C14 witness: the indicator "P12" gives the twelve URLs page-1 .. page-12.
C14_Witness ==
  /\ HomePageRead
  /\ probe.input.doc.pagination = <<"P", "1", "2">>
  /\ Len(probe.output.v) = 12
  /\ probe.output.v[1] = CatalogPageUrl(1)
  /\ probe.output.v[12] = CatalogPageUrl(12)

\* C15: constructCatalogPageUrls throws CatalogPageCountNotFoundError, and
\* returns no list, exactly when the home page was fetched and the text of
\* the pagination indicator (empty when the element is absent) does not end
\* with an integer.
C15_CountNotFound ==
  probe.fn = "constructCatalogPageUrls" =>
    /\ (probe.output.tag = "thrown") <=>
         (HomePageRead /\ ~EndsWithInteger(probe.input.doc.pagination))
    /\ probe.output.tag = "thrown" =>
         /\ probe.output.err = "CatalogPageCountNotFoundError"
         /\ probe.output.v = <<>>
    /\ probe.output.tag # "thrown" => probe.output.err = "none"

\* C15 witness: the indicator "P" has no integer and the function threw.
C15_Witness ==
  /\ HomePageRead
  /\ probe.input.doc.pagination = <<"P">>
  /\ probe.output.tag = "thrown"
  /\ probe.output.err = "CatalogPageCountNotFoundError"

\* the six extractors were applied to the page probe.input
Extracted == probe.fn = "extractors"

\* the extractor's result is its field-specific error err
FailsWith(result, err) == ~result.ok /\ result.err = err

\* C16: for each of the six extractors: when the element it selects is
\* absent it throws its own not-found error, and when the element is there
\* with an empty text it returns (the claim as the specification states
\* it).
C16_AbsentElementThrows ==
  Extracted =>
    /\ probe.input.breadcrumbs = <<>> =>
         FailsWith(probe.output.category, "BookCategoryNotFoundError")
    /\ probe.input.titles = <<>> =>
         FailsWith(probe.output.title, "BookTitleNotFoundError")
    /\ probe.input.description = <<>> =>
         FailsWith(probe.output.description, "BookDescriptionNotFoundError")
    /\ (probe.input.keys = <<>> /\ probe.input.values = <<>>) =>
         FailsWith(probe.output.productInfo, "BookProductInfoNotFoundError")
    /\ probe.input.imgSrc = <<>> =>
         FailsWith(probe.output.imageUrl, "BookImageURLFoundError")
    /\ Len(probe.input.breadcrumbs) >= 2 => probe.output.category.ok
    /\ probe.input.titles # <<>> => probe.output.title.ok
    /\ probe.input.description # <<>> => probe.output.description.ok
    /\ probe.input.imgSrc # <<>> => probe.output.imageUrl.ok

\* C17: extractBookRating returns the capitalized word at the end of the
\* class attribute of the rating element, and throws BookRatingNotFoundError
\* when the element or the attribute is absent or the attribute does not end
\* with a capitalized word (the claim as the specification states it).
C17_RatingOrNotFound ==
  Extracted =>
    IF probe.input.ratingClass = <<>>
         \/ CapitalizedTail(Trim(probe.input.ratingClass[1])) = <<>>
      THEN FailsWith(probe.output.rating, "BookRatingNotFoundError")
      ELSE /\ probe.output.rating.ok
           /\ probe.output.rating.value
                = CapitalizedTail(Trim(probe.input.ratingClass[1]))

\* C18: extractBookProductInfo returns min(k, v) pairs for k header cells
\* and v data cells, the i-th pair being the (trimmed) texts of the i-th
\* header cell and the i-th data cell, and never throws.
C18_PairsUpToShorter ==
  Extracted =>
    LET keys == probe.input.keys
        data == probe.input.values
        pairs == probe.output.productInfo.value
    IN  /\ probe.output.productInfo.ok
        /\ Len(pairs) <= Len(keys)
        /\ Len(pairs) <= Len(data)
        /\ Len(pairs) = Len(keys) \/ Len(pairs) = Len(data)
        /\ \A i \in 1..Len(pairs) :
             /\ DOMAIN pairs[i] = {"key", "value"}
             /\ pairs[i].key = Trim(keys[i])
             /\ pairs[i].value = Trim(data[i])

\* C18 witness: three header cells and two data cells gave two pairs.
C18_Witness ==
  /\ Extracted
  /\ Len(probe.input.keys) = 3
  /\ Len(probe.input.values) = 2
  /\ Len(probe.output.productInfo.value) = 2
  /\ probe.output.productInfo.value[2].key = <<"b">>

\* C19: getHtmlResponse and getAssetStream return the content for a
\* status-200 response only, fail with UnsuccessfulResponseError for a
\* completed exchange with another status, and with NoResponseError for an
\* exchange that was not completed (the claim as the specification states
\* it).
C19_ErrorByExchange ==
  probe.fn = "crawler" =>
    \A result \in {probe.output.html, probe.output.stream} :
      /\ result.ok <=> (probe.input.kind = "response" /\ probe.input.status = 200)
      /\ (probe.input.kind = "response" /\ probe.input.status # 200) =>
           result.err = "UnsuccessfulResponseError"
      /\ probe.input.kind = "noResponse" => result.err = "NoResponseError"

\* the text {directory}/{identifier}.{ext} for a descriptor
NamedFile(imageDatum) ==
  DataDirectory \o <<"/">> \o imageDatum.identifier \o <<".">>
    \o ImageExtension(imageDatum.url)

\* C20: downloadBookImages downloads the asset of every descriptor to the
\* file {directory}/{identifier}.{ext}, ext being the alphanumeric run at the
\* end of the URL, and two descriptors with different identifiers get
\* different files (the claim as the specification states it).
C20_FileNamedByIdentifier ==
  (probe.fn = "downloadBookImages" /\ probe.output.ok) =>
    /\ \A k \in 1..Len(probe.input) :
         /\ probe.output.calls[k].url = probe.input[k].url
         /\ probe.output.calls[k].file.src = NamedFile(probe.input[k])
    /\ probe.input[1].identifier # probe.input[2].identifier =>
         probe.output.calls[1].file # probe.output.calls[2].file

\* the entries of a record's productInfo whose key is "UPC"
UpcEntries(record) ==
  {j \in 1..Len(record.productInfo) : record.productInfo[j].key = UPC}

\* C21: once downloadAssets has been called with a list of records, either
\* every record has a "UPC" entry and there is exactly one descriptor per
\* record, in order, whose url is the record's imageUrl and whose identifier
\* is the value of the record's first "UPC" entry; or some record has none,
\* and the run has ended with an uncaught error, no descriptor list, and no
\* download issued for any record.
C21_DescriptorPerRecord ==
  (assetJob /\ bookData # <<>>) =>
    LET data == bookData[1]
    IN  IF \A k \in 1..Len(data) : UpcEntries(data[k]) # {}
          THEN /\ Len(imageData) = Len(data)
               /\ \A k \in 1..Len(data) :
                    /\ imageData[k].url = data[k].imageUrl
                    /\ \E j \in UpcEntries(data[k]) :
                         /\ \A i \in UpcEntries(data[k]) : j <= i
                         /\ imageData[k].identifier = data[k].productInfo[j].value
          ELSE /\ pc = "crashed"
               /\ uncaught # "none"
               /\ imageData = <<>>
               /\ dlOps = <<>>
               /\ InfoCount("downloaded") = 0

\* two records, the first with two "UPC" entries and a downloadable image,
\* the second without a "UPC" entry: the run is over and nothing was issued
C21_Witness ==
  /\ assetJob
  /\ bookData # <<>>
  /\ Len(bookData[1]) = 2
  /\ Cardinality(UpcEntries(bookData[1][1])) = 2
  /\ ImageExtension(bookData[1][1].imageUrl) # <<>>
  /\ UpcEntries(bookData[1][2]) = {}
  /\ pc = "crashed"
  /\ dlOps = <<>>

\* constructBookPageUrlsInCatalogPage was applied to a page that was fetched
CatalogPageRead ==
  /\ probe.fn = "constructBookPageUrlsInCatalogPage"
  /\ probe.input.x.kind = "response"
  /\ probe.input.x.status = 200

\* the places of the item anchors of the page that have an href: the
\* attribute is there and is not empty
WithHref(anchors) ==
  {p \in 1..Len(anchors) : anchors[p] # 0 /\ anchors[p] # EmptyHref}

\* the place of the k-th anchor that has an href
NthWithHref(anchors, k) ==
  CHOOSE p \in WithHref(anchors) :
    Cardinality({q \in WithHref(anchors) : q <= p}) = k

\* C22: for a catalog page that was fetched, the function returns (it never
\* fails the page), in document order, exactly one URL per item anchor that
\* has an href, the URL catalogue/{href} of the base; and it logs nothing
\* but one warning with the number of the anchors without href, and that
\* only if there is such an anchor.
C22_UrlPerAnchorWithHref ==
  CatalogPageRead =>
    LET anchors == probe.input.doc.anchors
        missing == Len(anchors) - Cardinality(WithHref(anchors))
    IN  /\ probe.output.loaded
        /\ Len(probe.output.value) = Cardinality(WithHref(anchors))
        /\ \A k \in 1..Len(probe.output.value) :
             probe.output.value[k] = BookPageUrl(anchors[NthWithHref(anchors, k)])
        /\ probe.output.entries
             = IF missing > 0
                 THEN SetToBag({WarnEntry(missing, CatalogPageUrl(1))})
                 ELSE EmptyBag

\* a page with the links 2 and 1 around an anchor without href: two URLs in
\* that order and one warning counting one anchor
C22_Witness ==
  /\ CatalogPageRead
  /\ probe.input.doc.anchors = <<2, 0, 1>>
  /\ probe.output.value = <<BookPageUrl(2), BookPageUrl(1)>>
  /\ BagCardinality(probe.output.entries) = 1

\* the item URLs of the input list whose record is kept: the page was
\* fetched and the extraction returned
KeptItems == {i \in 1..Len(itemOps) : itemOps[i].status = "fulfilled" /\ itemOps[i].loaded}

\* the place of the k-th kept item in the input list
NthKept(k) ==
  CHOOSE i \in KeptItems : Cardinality({j \in KeptItems : j <= i}) = k

\* C23: in whatever order the item fetches settle, once extractAllBookInfo
\* has resolved its records are the input list with the dropped items
\* removed: as many records as kept items, the k-th record being the one
\* extracted from the k-th kept URL of the input list.
C23_RecordsInInputOrder ==
  pc = "write" =>
    /\ Len(jobBookData) = Cardinality(KeptItems)
    /\ \A k \in 1..Len(jobBookData) :
         /\ jobBookData[k].url = bookPageUrls[NthKept(k)]
         /\ jobBookData[k] = itemOps[NthKept(k)].value[1]

\* two different item URLs, the second settled first and the first last:
\* the records are still in the order of the input list
C23_Witness ==
  /\ pc = "write"
  /\ Len(itemOps) = 2
  /\ bookPageUrls[1] # bookPageUrls[2]
  /\ itemLast = 1
  /\ Len(jobBookData) = 2
  /\ jobBookData[1].url = bookPageUrls[1]
  /\ jobBookData[2].url = bookPageUrls[2]
====
